---- MODULE Spec2Model ----
(***************************************************************************)
(* A model of pygogo.Gogo (src/pygogo/__init__.py): construction of a      *)
(* Gogo instance, the wiring of named loggers with copies of its high and  *)
(* low pass handlers, and the delivery of records through the standard     *)
(* logging hierarchy the class builds on.                                  *)
(*                                                                         *)
(* Strings that the code only compares are TLA+ strings.  Level names,     *)
(* which the code upper-cases, are sequences of characters.  Logger names  *)
(* are sequences of their dot separated components, so 'a.b' is <<a, b>>.  *)
(* An optional argument is a sequence of length at most one: <<>> is None. *)
(***************************************************************************)
EXTENDS Integers, Sequences, FiniteSets, TLC

VARIABLES
    gogos,      \* the Gogo instances of the process, in construction order
    manager,    \* logging's registry of named loggers: name -> [level, handlers]
    hdlrs,      \* the handler objects: reference -> [stream, level, filters, formatter]
    flists,     \* the filter list objects: reference -> sequence of filters
    ctor,       \* the arguments and the outcome of the last Gogo(...) call
    adapters,   \* the structured adapters handed out: [logger, extra], and the
                \* order the keywords were written in at the call (declared)
    last,       \* the outcome of the last call or emission of the main thread
    threads     \* the frame of each thread inside get_logger / get_structured_logger

vars == <<gogos, manager, hdlrs, flists, adapters, ctor, last, threads>>

-----------------------------------------------------------------------------
(* Bounds of the model.                                                    *)

MaxLoggers == 2     \* named loggers the registry may hold
MaxAdapters == 2    \* structured adapters the callers keep

-----------------------------------------------------------------------------
(* The logging module's levels: the integer attributes getattr can reach   *)
(* with an upper-cased name.                                               *)

NOTSET == 0
DEBUG == 10
INFO == 20
WARNING == 30
ERROR == 40
CRITICAL == 50

Severities == {DEBUG, INFO, WARNING, ERROR, CRITICAL}

RootLevel == WARNING    \* logging's root logger starts at WARNING, with no handlers

s_debug == <<"d", "e", "b", "u", "g">>
s_info == <<"i", "n", "f", "o">>
s_warning == <<"w", "a", "r", "n", "i", "n", "g">>
s_error == <<"e", "r", "r", "o", "r">>
s_critical == <<"c", "r", "i", "t", "i", "c", "a", "l">>
s_DEBUG == <<"D", "E", "B", "U", "G">>
s_Info == <<"I", "n", "f", "o">>
s_ERROR == <<"E", "R", "R", "O", "R">>
s_warn == <<"w", "a", "r", "n">>
s_fatal == <<"f", "a", "t", "a", "l">>
s_notset == <<"n", "o", "t", "s", "e", "t">>
s_bogus == <<"b", "o", "g", "u", "s">>
s_empty == << >>

ToUpper ==
    [c \in {"a", "b", "c", "d", "e", "f", "g", "i", "l", "n", "o", "r", "s", "t", "u", "w"} |->
        CASE c = "a" -> "A" [] c = "b" -> "B" [] c = "c" -> "C" [] c = "d" -> "D"
          [] c = "e" -> "E" [] c = "f" -> "F" [] c = "g" -> "G" [] c = "i" -> "I"
          [] c = "l" -> "L" [] c = "n" -> "N" [] c = "o" -> "O" [] c = "r" -> "R"
          [] c = "s" -> "S" [] c = "t" -> "T" [] c = "u" -> "U" [] c = "w" -> "W"]

\* str.upper(): lower case letters are replaced, every other character is kept
upper(s) == [i \in 1..Len(s) |-> IF s[i] \in DOMAIN ToUpper THEN ToUpper[s[i]] ELSE s[i]]

\* the module attributes of logging whose names are upper case, as NAME -> value;
\* BASIC_FORMAT is a string, the others are integers
LoggingAttrs ==
    { <<upper(s_critical), <<CRITICAL>>>>, <<upper(s_fatal), <<CRITICAL>>>>,
      <<upper(s_error), <<ERROR>>>>, <<upper(s_warning), <<WARNING>>>>,
      <<upper(s_warn), <<WARNING>>>>, <<upper(s_info), <<INFO>>>>,
      <<upper(s_debug), <<DEBUG>>>>, <<upper(s_notset), <<NOTSET>>>> }

\* getattr(logging, NAME, None) followed by isinstance(.., int):
\* <<n>> for an integer attribute, <<>> for None or a non-integer
getattr_logging(NAME) ==
    IF \E a \in LoggingAttrs : a[1] = NAME
    THEN (CHOOSE a \in LoggingAttrs : a[1] = NAME)[2]
    ELSE << >>

-----------------------------------------------------------------------------
(* Gogo.__init__                                                           *)

\* `x or default` on an optional string: None and '' are both falsy
or_default(x, d) == IF x = << >> \/ x[1] = << >> THEN d ELSE x[1]

\* lines 149-157: the level name that is looked up for low_level
low_level_name_swapped(low_level, verbose) ==
    IF verbose = "None" THEN or_default(low_level, s_debug)
    ELSE IF verbose = "True" THEN s_info
    ELSE s_debug

low_level_name(low_level, verbose) ==
    IF verbose = "None" THEN or_default(low_level, s_debug)
    ELSE IF verbose = "True" THEN s_debug
    ELSE s_info

\* line 166: `not self.high_level >= self.low_level` raises
levels_ordered_strict(high, low) == high > low

levels_ordered(high, low) == high >= low

\* the whole constructor: [ok |-> TRUE, self |-> the instance] or
\* [ok |-> FALSE, error |-> the ValueError's message]
Gogo__init__(name, high_level, low_level, kw) ==
    LET high == getattr_logging(upper(or_default(high_level, s_warning)))
        low == getattr_logging(upper(low_level_name(low_level, kw.verbose)))
    IN  IF high = << >> THEN [ok |-> FALSE, error |-> "Invalid high_level"]
        ELSE IF low = << >> THEN [ok |-> FALSE, error |-> "Invalid low_level"]
        ELSE IF ~levels_ordered(high[1], low[1])
        THEN [ok |-> FALSE, error |-> "high_level must be >= low_level"]
        ELSE [ok |-> TRUE,
              self |-> [name |-> name,
                        high_level |-> high[1],
                        low_level |-> low[1],
                        loggers |-> {},
                        high_hdlr |-> kw.high_hdlr,
                        low_hdlr |-> kw.low_hdlr,
                        high_formatter |-> kw.high_formatter,
                        low_formatter |-> kw.low_formatter,
                        monolog |-> kw.monolog]]

-----------------------------------------------------------------------------
(* Handlers, filters and the heap.                                         *)
(*                                                                         *)
(* Handler objects and their filter lists are mutable and can be shared,   *)
(* so both live in a heap H = [h |-> handlers, f |-> filter lists] and are *)
(* named by references.  A reference is a tuple naming the allocation:     *)
(* <<"cfg", n, "high">> for the handler passed to the n-th Gogo,           *)
(* <<"copy", logger, i>> for the copy made to become the i-th handler of a *)
(* logger.  Filters are never mutated and are values.  A formatter is      *)
(* shared by reference and never mutated, so it is a name.                 *)

NoHdlr == << >>
NoKwargs == [name |-> << >>, fields |-> << >>]

Range(s) == {s[i] : i \in DOMAIN s}

Heap == [h |-> hdlrs, f |-> flists]

\* logging.StreamHandler(stream): level NOTSET, no filters, no formatter
StreamHandler(H, ref, stream) ==
    [h |-> (ref :> [stream |-> stream, level |-> NOTSET, filters |-> ref,
                    formatter |-> "None"]) @@ H.h,
     f |-> (ref :> << >>) @@ H.f]

\* src/gogo/handlers.py: the default handlers
stdout_hdlr(H, ref) == StreamHandler(H, ref, "stdout")

stderr_hdlr(H, ref) == StreamHandler(H, ref, "stderr")

\* logging.Filter(name)
NameFilter(nm) == [kind |-> "Filter", high_level |-> 0, name |-> nm, fields |-> << >>]

\* utils.LogFilter(level)
LogFilter(level) == [kind |-> "LogFilter", high_level |-> level, name |-> << >>, fields |-> << >>]

\* utils.get_structured_filter(**kwargs)
get_structured_filter(kwargs) ==
    [kind |-> "StructuredFilter", high_level |-> 0,
     name |-> IF kwargs.name = << >> THEN << >> ELSE kwargs.name[1],
     fields |-> kwargs.fields]

IsPrefix(p, n) == Len(p) <= Len(n) /\ SubSeq(n, 1, Len(p)) = p

\* filter.filter(record): whether the filter admits the record
\*   Filter(name): the record's logger is name or below it ('' admits all)
\*   LogFilter: the record is below high_level
\*   StructuredFilter: sets the fields on the record and admits it
admits(fltr, record) ==
    CASE fltr.kind = "Filter" -> IsPrefix(fltr.name, record.name)
      [] fltr.kind = "LogFilter" -> record.levelno < fltr.high_level
      [] fltr.kind = "StructuredFilter" -> TRUE

setLevel(H, hdlr, level) == [H EXCEPT !.h[hdlr].level = level]

\* Filterer.addFilter: a filter object not yet in the list is appended
addFilter(H, hdlr, fltr) ==
    [H EXCEPT !.f[H.h[hdlr].filters] = Append(@, fltr)]

setFormatter(H, hdlr, fmtr) == [H EXCEPT !.h[hdlr].formatter = fmtr]

\* Gogo.copy_hdlr: a shallow copy of the handler at the new reference c,
\* with a new filter list holding copies of the filters
copy_hdlr_shared_list(H, hdlr, c) ==
    [heap |-> [h |-> (c :> H.h[hdlr]) @@ H.h, f |-> H.f], ref |-> c]

copy_hdlr(H, hdlr, c) ==
    [heap |-> [h |-> (c :> [H.h[hdlr] EXCEPT !.filters = c]) @@ H.h,
               f |-> (c :> H.f[H.h[hdlr].filters]) @@ H.f],
     ref |-> c]

\* Gogo.update_hdlr
update_hdlr_low_level(self, H, hdlr, level, formatter, monolog, kwargs) ==
    LET fmtr == IF formatter = "None" THEN "basic_formatter" ELSE formatter
        H1 == setLevel(H, hdlr, level)
        H2 == IF monolog THEN addFilter(H1, hdlr, LogFilter(self.low_level)) ELSE H1
        H3 == IF kwargs # NoKwargs
              THEN addFilter(H2, hdlr, get_structured_filter(kwargs)) ELSE H2
    IN  setFormatter(H3, hdlr, fmtr)

update_hdlr(self, H, hdlr, level, formatter, monolog, kwargs) ==
    LET fmtr == IF formatter = "None" THEN "basic_formatter" ELSE formatter
        H1 == setLevel(H, hdlr, level)
        H2 == IF monolog THEN addFilter(H1, hdlr, LogFilter(self.high_level)) ELSE H1
        H3 == IF kwargs # NoKwargs
              THEN addFilter(H2, hdlr, get_structured_filter(kwargs)) ELSE H2
    IN  setFormatter(H3, hdlr, fmtr)

\* line 306: which of [high, low] gets the monolog filter
monologs_swapped(self) == <<self.monolog, FALSE>>

monologs(self) == <<FALSE, self.monolog>>

\* line 304: the levels of [high, low]
levels_swapped(self) == <<self.low_level, self.high_level>>

levels(self) == <<self.high_level, self.low_level>>

\* Gogo.zip: the default handlers are made on every call, at references
\* named after `at`; the result pairs [high, low] with level, formatter and
\* monolog flag.  The formatters passed as arguments are not used.
zip(self, H, at) ==
    LET d_high == <<"stderr_hdlr">> \o at
        d_low == <<"stdout_hdlr">> \o at
        H1 == stdout_hdlr(stderr_hdlr(H, d_high), d_low)
        high == IF self.high_hdlr # NoHdlr THEN self.high_hdlr ELSE d_high
        low == IF self.low_hdlr # NoHdlr THEN self.low_hdlr ELSE d_low
    IN  [heap |-> H1,
         zipped |-> << [hdlr |-> high, level |-> levels(self)[1],
                        fmtr |-> self.high_formatter, monolog |-> monologs(self)[1]],
                       [hdlr |-> low, level |-> levels(self)[2],
                        fmtr |-> self.low_formatter, monolog |-> monologs(self)[2]] >>]

-----------------------------------------------------------------------------
(* The logging registry and the steps of get_logger.                       *)
(*                                                                         *)
(* A world W = [gogos, manager, heap] is the part of the state the calls   *)
(* read and write; each step below maps a world to the world after it.     *)

World == [gogos |-> gogos, manager |-> manager, heap |-> Heap]

ModuleLogger == <<"pygogo">>
ModuleHdlr == <<"module_hdlr">>

\* the references a live object holds: handlers of loggers, handlers the
\* Gogo instances were given; everything else has been freed
collect(W) ==
    LET live == UNION {Range(W.manager[l].handlers) : l \in DOMAIN W.manager}
                \cup ({W.gogos[g].high_hdlr : g \in DOMAIN W.gogos} \ {NoHdlr})
                \cup ({W.gogos[g].low_hdlr : g \in DOMAIN W.gogos} \ {NoHdlr})
        lists == {W.heap.h[r].filters : r \in live}
    IN  [W EXCEPT !.heap = [h |-> [r \in live |-> W.heap.h[r]],
                            f |-> [r \in lists |-> W.heap.f[r]]]]

\* logging.getLogger(name): the logger of that name, created on first use
logging_getLogger(W, lg) ==
    IF lg \in DOMAIN W.manager THEN W
    ELSE [W EXCEPT !.manager = (lg :> [level |-> NOTSET, handlers |-> << >>]) @@ @]

\* line 338 / 388: `lggr_name not in self.loggers` is the negation of this
is_wired_never(self, lg) == FALSE

is_wired(self, lg) == lg \in self.loggers

\* line 339 / 389
loggers_add_only(W, g, lg) == [W EXCEPT !.gogos[g].loggers = {lg}]

loggers_add(W, g, lg) == [W EXCEPT !.gogos[g].loggers = @ \cup {lg}]

\* Logger.addHandler: a handler object not yet attached is appended
addHandler(W, lg, ref) ==
    IF ref \in Range(W.manager[lg].handlers) THEN W
    ELSE [W EXCEPT !.manager[lg].handlers = Append(@, ref)]

\* lines 344-348 / 392-396: the loop body for the i-th tuple of self.zip().
\* zip() is evaluated here, at the use of its i-th tuple: the fields it
\* reads never change and the default handlers it makes are private to
\* the call.
attach(W, g, lg, i, kwargs) ==
    LET self == W.gogos[g]
        n == Len(W.manager[lg].handlers)
        z == zip(self, W.heap, <<lg, n>>)
        e == z.zipped[i]
        c == copy_hdlr(z.heap, e.hdlr, <<"copy", lg, n + 1>>)
        H == update_hdlr(self, c.heap, c.ref, e.level, e.fmtr, e.monolog, kwargs)
    IN  collect(addHandler([W EXCEPT !.heap = H], lg, c.ref))

\* line 350 / 398
Logger_setLevel(W, g, lg) == [W EXCEPT !.manager[lg].level = W.gogos[g].low_level]

\* line 335 and lines 341-342
lggr_name(self, name) == self.name \o name

filter_kwargs(lg, fields) ==
    IF fields # << >> THEN [name |-> <<lg>>, fields |-> fields] ELSE NoKwargs

\* lines 338-350 / 388-398: the wiring of a name not yet in self.loggers
wire(W, g, lg, kwargs) ==
    Logger_setLevel(attach(attach(loggers_add(W, g, lg), g, lg, 1, kwargs),
                           g, lg, 2, kwargs), g, lg)

\* Gogo.get_logger(name, **fields): the world after the call; the call
\* returns the logger named lggr_name(self, name)
get_logger_rewire(W, g, name, fields) ==
    LET lg == lggr_name(W.gogos[g], name)
        W1 == logging_getLogger(W, lg)
    IN  IF ~is_wired(W.gogos[g], lg) \/ fields # << >>
        THEN wire(W1, g, lg, filter_kwargs(lg, fields))
        ELSE W1

get_logger(W, g, name, fields) ==
    LET lg == lggr_name(W.gogos[g], name)
        W1 == logging_getLogger(W, lg)
    IN  IF ~is_wired(W.gogos[g], lg) THEN wire(W1, g, lg, filter_kwargs(lg, fields))
        ELSE W1

-----------------------------------------------------------------------------
(* get_structured_logger: the name derived from the keyword arguments.     *)
(*                                                                         *)
(* A keyword argument is written as the repr of its (key, value) tuple.    *)
(* kwargs is a dict and frozenset(kwargs.iteritems()) a hash table: both   *)
(* are laid out by CPython 2.7's open addressing (8 slots, the probe       *)
(* i = 5*i + perturb + 1, perturb >>= 5) and iterated in slot order.  The  *)
(* hashes are those of the 64 bit build, reduced to their low 16 bits,     *)
(* which decide the first three probes.                                    *)

MinSize == 8
PerturbShift == 32      \* perturb >>= 5

Items == {"('ip', '1.1.1.1')", "('h', '1.1.1.1')"}

ItemKey(it) ==
    CASE it = "('ip', '1.1.1.1')" -> "ip"
      [] it = "('h', '1.1.1.1')" -> "h"
      [] it = "('all', 'true')" -> "all"

\* hash(key) & 0xffff
KeyHash(it) ==
    CASE it = "('ip', '1.1.1.1')" -> 50569
      [] it = "('h', '1.1.1.1')" -> 40041
      [] it = "('all', 'true')" -> 28674

\* hash((key, value)) & 0xffff
TupleHash(it) ==
    CASE it = "('ip', '1.1.1.1')" -> 8041
      [] it = "('h', '1.1.1.1')" -> 35273
      [] it = "('all', 'true')" -> 3109

EmptyTable == [i \in 0..(MinSize - 1) |-> ""]

RECURSIVE free_slot(_, _, _)
free_slot(table, i, perturb) ==
    IF table[i] = "" THEN i
    ELSE free_slot(table, (5 * i + perturb + 1) % MinSize, perturb \div PerturbShift)

insert(table, it, h) == [table EXCEPT ![free_slot(table, h % MinSize, h)] = it]

RECURSIVE fill(_, _, _, _)
fill(table, its, hashes, k) ==
    IF k > Len(its) THEN table
    ELSE fill(insert(table, its[k], hashes[k]), its, hashes, k + 1)

RECURSIVE slots(_, _)
slots(table, i) ==
    IF i = MinSize THEN << >>
    ELSE (IF table[i] = "" THEN << >> ELSE <<table[i]>>) \o slots(table, i + 1)

\* kwargs.iteritems() of a call that passed the keywords in the order `call`
iteritems(call) ==
    slots(fill(EmptyTable, call, [k \in DOMAIN call |-> KeyHash(call[k])], 1), 0)

\* the iteration order of frozenset(items)
frozenset(items) ==
    slots(fill(EmptyTable, items, [k \in DOMAIN items |-> TupleHash(items[k])], 1), 0)

RECURSIVE join(_, _)
join(strs, k) ==
    IF k > Len(strs) THEN ""
    ELSE (IF k > 1 THEN ", " ELSE "") \o strs[k] \o join(strs, k + 1)

\* str(values)
str(values) == "frozenset([" \o join(values, 1) \o "])"

\* hashlib.md5(s).hexdigest(): a digest, taken to be free of collisions
md5_hexdigest(s) == "md5:" \o s

\* lines 383-385: name is an optional sequence of components
structured_name(self, name, call) ==
    LET values == frozenset(iteritems(call))
        nm == IF name = << >> \/ name[1] = << >>
              THEN <<md5_hexdigest(str(values))>> ELSE name[1]
    IN  self.name \o <<"structured">> \o nm

\* Gogo.get_structured_logger(name, **call): the world after the call; the
\* call returns StructuredAdapter(logger, kwargs)
get_structured_logger_filtered(W, g, name, call) ==
    LET lg == structured_name(W.gogos[g], name, call)
        W1 == logging_getLogger(W, lg)
    IN  IF ~is_wired(W.gogos[g], lg) THEN wire(W1, g, lg, filter_kwargs(lg, iteritems(call)))
        ELSE W1

get_structured_logger(W, g, name, call) ==
    LET lg == structured_name(W.gogos[g], name, call)
        W1 == logging_getLogger(W, lg)
    IN  IF ~is_wired(W.gogos[g], lg) THEN wire(W1, g, lg, NoKwargs)
        ELSE W1

\* line 400: utils.StructuredAdapter(logger, kwargs).  kwargs is the dict of
\* the call, so the adapter holds the fields in the dict's order.
StructuredAdapter(lg, call) == [logger |-> lg, extra |-> iteritems(call), declared |-> call]

\* the keys of a sequence of items
keys(its) == [k \in DOMAIN its |-> ItemKey(its[k])]

\* StructuredAdapter.process and the rendering of the record: one document,
\* the fields the adapter holds, then message, then the keys of the call's
\* extra (which are none of the adapter's keys here)
StructuredAdapter_process(adapter, extra) == keys(adapter.extra) \o <<"message">> \o extra

-----------------------------------------------------------------------------
(* Emission: Logger.log as the logging package runs it on the wiring.      *)

RECURSIVE chain(_, _, _)
\* the logger and its existing ancestors, nearest first (Logger.parent);
\* the root logger, which ends every chain, has no handlers
chain(M, lg, k) ==
    IF k = 0 THEN << >>
    ELSE (IF SubSeq(lg, 1, k) \in DOMAIN M THEN <<SubSeq(lg, 1, k)>> ELSE << >>)
         \o chain(M, lg, k - 1)

\* Logger.getEffectiveLevel: the first level set on the chain, else the root's
getEffectiveLevel(M, lg) ==
    LET c == chain(M, lg, Len(lg))
        is_set(l) == M[l].level # NOTSET
        set == SelectSeq(c, is_set)
    IN  IF set = << >> THEN RootLevel ELSE M[set[1]].level

\* the level test of Logger.callHandlers and the filters of Handler.handle
handles(H, ref, record) ==
    /\ record.levelno >= H.h[ref].level
    /\ \A i \in DOMAIN H.f[H.h[ref].filters] : admits(H.f[H.h[ref].filters][i], record)

RECURSIVE callHandlers(_, _, _, _)
\* the handlers that emit the record, in call order, along the chain c
callHandlers(W, c, k, record) ==
    IF k > Len(c) THEN << >>
    ELSE LET emits(ref) == handles(W.heap, ref, record)
         IN  SelectSeq(W.manager[c[k]].handlers, emits)
             \o callHandlers(W, c, k + 1, record)

\* logger.log(levelno, msg) on the logger named lg: the handlers that emit
Logger_log(W, lg, levelno) ==
    IF levelno >= getEffectiveLevel(W.manager, lg)
    THEN callHandlers(W, chain(W.manager, lg, Len(lg)), 1, [name |-> lg, levelno |-> levelno])
    ELSE << >>

-----------------------------------------------------------------------------
(* The inputs of the model.                                                *)

RecognizedNames == {s_debug, s_info, s_warning, s_error, s_critical}

\* level arguments tried on the constructor: None, '', the five names in
\* several cases, the other integer attributes of logging, and a stranger
LevelArgs ==
    {<< >>} \cup {<<n>> : n \in RecognizedNames \cup
        {s_DEBUG, s_Info, s_ERROR, s_warn, s_fatal, s_notset, s_bogus, s_empty}}

GogoName == <<"app">>

\* names asked of get_logger (default 'base')
LoggerNames == {<<"base">>, <<"a">>, <<"a", "b">>}

\* keyword arguments given to get_logger
FieldChoices == {<< >>, <<"('ip', '1.1.1.1')">>}

\* names given to get_structured_logger: None or 'x'
StructuredNames == {<< >>, <<<<"x">>>>}

\* keyword arguments given to get_structured_logger, in call order
Contexts ==
    {<< >>} \cup {<<a>> : a \in Items}
    \cup ({<<a, b>> : a \in Items, b \in Items} \ {<<a, a>> : a \in Items})

CfgRef(g, which) == <<"cfg", g, which>>

\* the keyword arguments of Gogo(...): handlers and formatters of the
\* caller's, or none
GogoKwargs(g, verbose, monolog, configured) ==
    [verbose |-> verbose, monolog |-> monolog,
     high_hdlr |-> IF configured THEN CfgRef(g, "high") ELSE NoHdlr,
     low_hdlr |-> IF configured THEN CfgRef(g, "low") ELSE NoHdlr,
     high_formatter |-> IF configured THEN "high_formatter" ELSE "None",
     low_formatter |-> IF configured THEN "low_formatter" ELSE "None"]

\* lines 56-60: the module's own logger and handler
ModuleHeap ==
    addFilter(StreamHandler([h |-> << >>, f |-> << >>], ModuleHdlr, "stdout"),
              ModuleHdlr, NameFilter(<<"pygogo", "init">>))

\* the handlers a caller passes in: stream handlers of its own, the low one
\* carrying a filter that admits every record
CallerHeap(H, g) ==
    addFilter(StreamHandler(StreamHandler(H, CfgRef(g, "high"), "high_stream"),
                            CfgRef(g, "low"), "low_stream"),
              CfgRef(g, "low"), NameFilter(<< >>))

NumThreads == 2
Threads == 1..NumThreads

IdleFrame == [pc |-> "idle", op |-> "none", g |-> 0, lg |-> << >>, kwargs |-> NoKwargs,
              call |-> << >>, fresh |-> FALSE]

\* a call leaves: the logger returned (name), whether the call wired it
\* (fresh), the logger's level and handlers at the return and the keyword
\* arguments as the call's dict holds them (extra).  An emission leaves: the logger,
\* the record's level and the handlers that emitted (out); an emission
\* through an adapter also the keywords the adapter was made with, as
\* written (declared), the keys of the call's extra (extra) and the document
\* the handlers wrote (doc).
NoLast == [op |-> "none", g |-> 0, name |-> << >>, fresh |-> FALSE, extra |-> << >>,
           level |-> 0, handlers |-> << >>, levelno |-> 0, out |-> << >>,
           declared |-> << >>, doc |-> << >>]

NoCtor == [high_level |-> << >>, low_level |-> << >>, verbose |-> "None", called |-> FALSE,
           ok |-> FALSE, error |-> ""]

-----------------------------------------------------------------------------
(* Construction.                                                           *)

InitCtor ==
    /\ gogos = << >>
    /\ manager = (ModuleLogger :> [level |-> NOTSET, handlers |-> <<ModuleHdlr>>])
    /\ hdlrs = ModuleHeap.h
    /\ flists = ModuleHeap.f
    /\ adapters = {}
    /\ ctor = NoCtor
    /\ last = NoLast
    /\ threads = [t \in Threads |-> IdleFrame]

\* Gogo(GogoName, high_level, low_level, verbose=.., monolog=.., ...)
Construct(high_level, low_level, verbose, monolog, configured) ==
    LET g == Len(gogos) + 1
        r == Gogo__init__(GogoName, high_level, low_level,
                          GogoKwargs(g, verbose, monolog, configured))
        H == IF configured /\ r.ok THEN CallerHeap(Heap, g) ELSE Heap
    IN  /\ ~ctor.called
        /\ gogos' = IF r.ok THEN Append(gogos, r.self) ELSE gogos
        /\ hdlrs' = H.h
        /\ flists' = H.f
        /\ ctor' = [high_level |-> high_level, low_level |-> low_level, verbose |-> verbose,
                    called |-> TRUE, ok |-> r.ok, error |-> IF r.ok THEN "" ELSE r.error]
        /\ UNCHANGED <<manager, adapters, last, threads>>

NextCtor ==
    \E high_level \in LevelArgs, low_level \in LevelArgs,
       verbose \in {"None", "True", "False"}, monolog \in BOOLEAN, configured \in BOOLEAN :
        Construct(high_level, low_level, verbose, monolog, configured)

SpecInit == InitCtor /\ [][NextCtor]_vars

-----------------------------------------------------------------------------
(* One thread using one Gogo: every call runs to its return.               *)

\* the state after Gogo(GogoName, high, low, monolog=.., ...) succeeded
Constructed(high, low, monolog, configured) ==
    LET r == Gogo__init__(GogoName, <<high>>, <<low>>,
                          GogoKwargs(1, "None", monolog, configured))
        H == IF configured THEN CallerHeap(ModuleHeap, 1) ELSE ModuleHeap
    IN  /\ r.ok
        /\ gogos = <<r.self>>
        /\ manager = (ModuleLogger :> [level |-> NOTSET, handlers |-> <<ModuleHdlr>>])
        /\ hdlrs = H.h
        /\ flists = H.f
        /\ adapters = {}
        /\ ctor = [high_level |-> <<high>>, low_level |-> <<low>>, verbose |-> "None",
                   called |-> TRUE, ok |-> TRUE, error |-> ""]
        /\ last = NoLast
        /\ threads = [t \in Threads |-> IdleFrame]

Loggers(M) == DOMAIN M \ {ModuleLogger}

\* room for the logger named lg
Room(lg) == lg \in DOMAIN manager \/ Cardinality(Loggers(manager)) < MaxLoggers

Becomes(W) ==
    /\ gogos' = W.gogos
    /\ manager' = W.manager
    /\ hdlrs' = W.heap.h
    /\ flists' = W.heap.f

\* logger = gogos[g].get_logger(name, **fields)
GetLogger(g, name, fields) ==
    LET lg == lggr_name(gogos[g], name)
    IN  /\ Becomes(get_logger(World, g, name, fields))
        /\ last' = [NoLast EXCEPT !.op = "get_logger", !.g = g, !.name = lg,
                                  !.fresh = ~is_wired(gogos[g], lg),
                                  !.extra = fields,
                                  !.level = manager'[lg].level,
                                  !.handlers = manager'[lg].handlers]
        /\ UNCHANGED <<adapters, ctor, threads>>

\* adapter = gogos[g].get_structured_logger(name, **call); the caller keeps
\* the adapter, StructuredAdapter(logger, kwargs)
GetStructuredLogger(g, name, call) ==
    LET lg == structured_name(gogos[g], name, call)
    IN  /\ Becomes(get_structured_logger(World, g, name, call))
        /\ adapters' = adapters \cup {StructuredAdapter(lg, call)}
        /\ last' = [NoLast EXCEPT !.op = "get_structured_logger", !.g = g, !.name = lg,
                                  !.fresh = ~is_wired(gogos[g], lg),
                                  !.extra = iteritems(call),
                                  !.level = manager'[lg].level,
                                  !.handlers = manager'[lg].handlers]
        /\ UNCHANGED <<ctor, threads>>

\* logger.log(levelno, msg) on a logger handed out before
Emit(lg, levelno) ==
    /\ lg \in Loggers(manager)
    /\ last' = [NoLast EXCEPT !.op = "log", !.name = lg, !.levelno = levelno,
                              !.out = Logger_log(World, lg, levelno)]
    /\ UNCHANGED <<gogos, manager, hdlrs, flists, adapters, ctor, threads>>

\* routing: every pair of recognized levels, get_logger and emission
Init ==
    \E high \in RecognizedNames, low \in RecognizedNames,
       monolog \in BOOLEAN, configured \in BOOLEAN :
        Constructed(high, low, monolog, configured)

Next ==
    \/ \E g \in DOMAIN gogos, name \in LoggerNames, fields \in FieldChoices :
            GetLogger(g, name, fields)
    \/ \E lg \in Loggers(manager), levelno \in Severities : Emit(lg, levelno)

Spec == Init /\ [][Next]_vars

\* wiring: the default levels, both ways to ask for a logger
InitWiring ==
    \E monolog \in BOOLEAN, configured \in BOOLEAN :
        Constructed(s_warning, s_debug, monolog, configured)

NextWiring ==
    \/ \E g \in DOMAIN gogos, name \in LoggerNames, fields \in FieldChoices :
            Room(lggr_name(gogos[g], name)) /\ GetLogger(g, name, fields)
    \/ \E g \in DOMAIN gogos, name \in StructuredNames, call \in Contexts :
            /\ Room(structured_name(gogos[g], name, call))
            /\ Cardinality(adapters) < MaxAdapters
            /\ GetStructuredLogger(g, name, call)

SpecWiring == InitWiring /\ [][NextWiring]_vars

-----------------------------------------------------------------------------
(* Both ways to one name: get_logger('structured.x') and                   *)
(* get_structured_logger('x') derive the same logger name.                 *)

PathNames == {<<"base">>, <<"structured", "x">>}

PathContexts == {<< >>, <<"('ip', '1.1.1.1')">>}

NextPaths ==
    \/ \E g \in DOMAIN gogos, name \in PathNames, fields \in FieldChoices :
            Room(lggr_name(gogos[g], name)) /\ GetLogger(g, name, fields)
    \/ \E g \in DOMAIN gogos, name \in StructuredNames, call \in PathContexts :
            /\ Room(structured_name(gogos[g], name, call))
            /\ Cardinality(adapters) < MaxAdapters
            /\ GetStructuredLogger(g, name, call)

SpecPaths == InitWiring /\ [][NextPaths]_vars

-----------------------------------------------------------------------------
(* Two Gogo instances in one process: each has its own self.loggers, and   *)
(* logging.getLogger hands both the same logger for the same name.         *)

\* the name of the second instance: that of the first, or another
SecondNames == {GogoName, <<"web">>}

InitRouters ==
    \E second \in SecondNames, monolog \in BOOLEAN :
        LET r1 == Gogo__init__(GogoName, <<s_warning>>, <<s_debug>>,
                               GogoKwargs(1, "None", monolog, FALSE))
            r2 == Gogo__init__(second, <<s_warning>>, <<s_debug>>,
                               GogoKwargs(2, "None", monolog, FALSE))
        IN  /\ gogos = <<r1.self, r2.self>>
            /\ manager = (ModuleLogger :> [level |-> NOTSET, handlers |-> <<ModuleHdlr>>])
            /\ hdlrs = ModuleHeap.h
            /\ flists = ModuleHeap.f
            /\ adapters = {}
            /\ ctor = [high_level |-> <<s_warning>>, low_level |-> <<s_debug>>,
                       verbose |-> "None", called |-> TRUE, ok |-> TRUE, error |-> ""]
            /\ last = NoLast
            /\ threads = [t \in Threads |-> IdleFrame]

NextRouters ==
    \/ \E g \in DOMAIN gogos, name \in LoggerNames, fields \in FieldChoices :
            Room(lggr_name(gogos[g], name)) /\ GetLogger(g, name, fields)
    \/ \E lg \in Loggers(manager), levelno \in Severities : Emit(lg, levelno)

SpecRouters == InitRouters /\ [][NextRouters]_vars

-----------------------------------------------------------------------------
(* Structured adapters: get_structured_logger and the adapter's log calls. *)

\* keyword arguments given to get_structured_logger, in the order written
StructuredContexts ==
    {<<"('all', 'true')">>, <<"('ip', '1.1.1.1')">>,
     <<"('all', 'true')", "('ip', '1.1.1.1')">>, <<"('ip', '1.1.1.1')", "('all', 'true')">>}

\* the keys of the extra given to a log call: none, or {'key': 'value'}
Extras == {<< >>, <<"key">>}

\* adapter.log(levelno, 'hello', extra=extra) on an adapter handed out
\* before: LoggerAdapter.log passes the processed message to its logger
Adapter_log(a, levelno, extra) ==
    LET out == Logger_log(World, a.logger, levelno)
    IN  /\ a \in adapters
        /\ last' = [NoLast EXCEPT !.op = "adapter_log", !.name = a.logger,
                                  !.levelno = levelno, !.out = out,
                                  !.declared = a.declared, !.extra = extra,
                                  !.doc = IF out = << >> THEN << >>
                                          ELSE StructuredAdapter_process(a, extra)]
        /\ UNCHANGED <<gogos, manager, hdlrs, flists, adapters, ctor, threads>>

InitStructured ==
    \E monolog \in BOOLEAN, configured \in BOOLEAN :
        Constructed(s_warning, s_debug, monolog, configured)

NextStructured ==
    \/ \E g \in DOMAIN gogos, name \in StructuredNames, call \in StructuredContexts :
            /\ Room(structured_name(gogos[g], name, call))
            /\ Cardinality(adapters) < MaxAdapters
            /\ GetStructuredLogger(g, name, call)
    \/ \E a \in adapters, levelno \in Severities, extra \in Extras :
            Adapter_log(a, levelno, extra)

SpecStructured == InitStructured /\ [][NextStructured]_vars

-----------------------------------------------------------------------------
(* Threads: get_logger and get_structured_logger statement by statement.   *)
(* The calls take no lock, so between any two statements of one thread     *)
(* another thread may run.  The loop body is one step: the copy it works   *)
(* on is private until addHandler, which appends under logging's own lock. *)

InitThreads == \E monolog \in BOOLEAN : Constructed(s_warning, s_debug, monolog, FALSE)

Frame(t) == threads[t]

Goto(t, pc) == threads' = [threads EXCEPT ![t].pc = pc]

\* lines 335-336: the name and logging.getLogger(lggr_name)
CallGetLogger(t, g, name, fields) ==
    LET lg == lggr_name(gogos[g], name)
    IN  /\ Frame(t).pc = "idle"
        /\ Room(lg)
        /\ Becomes(logging_getLogger(World, lg))
        /\ threads' = [threads EXCEPT ![t] =
                [IdleFrame EXCEPT !.pc = "test", !.op = "get_logger", !.g = g, !.lg = lg,
                                  !.kwargs = filter_kwargs(lg, fields)]]
        /\ UNCHANGED <<adapters, ctor, last>>

\* lines 383-386
CallGetStructuredLogger(t, g, name, call) ==
    LET lg == structured_name(gogos[g], name, call)
    IN  /\ Frame(t).pc = "idle"
        /\ Room(lg)
        /\ Becomes(logging_getLogger(World, lg))
        /\ threads' = [threads EXCEPT ![t] =
                [IdleFrame EXCEPT !.pc = "test", !.op = "get_structured_logger", !.g = g,
                                  !.lg = lg, !.call = call]]
        /\ UNCHANGED <<adapters, ctor, last>>

\* line 338 / 388: the test
Test(t) ==
    /\ Frame(t).pc = "test"
    /\ threads' = [threads EXCEPT
            ![t].pc = IF ~is_wired(gogos[Frame(t).g], Frame(t).lg) THEN "add" ELSE "return",
            ![t].fresh = ~is_wired(gogos[Frame(t).g], Frame(t).lg)]
    /\ UNCHANGED <<gogos, manager, hdlrs, flists, adapters, ctor, last>>

\* line 339 / 389: self.loggers.add(lggr_name)
Add(t) ==
    /\ Frame(t).pc = "add"
    /\ Becomes(loggers_add(World, Frame(t).g, Frame(t).lg))
    /\ Goto(t, "attach_high")
    /\ UNCHANGED <<adapters, ctor, last>>

\* lines 344-348 / 392-396, first pass: the high pass handler
AttachHigh(t) ==
    /\ Frame(t).pc = "attach_high"
    /\ Becomes(attach(World, Frame(t).g, Frame(t).lg, 1, Frame(t).kwargs))
    /\ Goto(t, "attach_low")
    /\ UNCHANGED <<adapters, ctor, last>>

\* second pass: the low pass handler
AttachLow(t) ==
    /\ Frame(t).pc = "attach_low"
    /\ Becomes(attach(World, Frame(t).g, Frame(t).lg, 2, Frame(t).kwargs))
    /\ Goto(t, "setLevel")
    /\ UNCHANGED <<adapters, ctor, last>>

\* line 350 / 398: logger.setLevel(self.low_level)
SetLevel(t) ==
    /\ Frame(t).pc = "setLevel"
    /\ Becomes(Logger_setLevel(World, Frame(t).g, Frame(t).lg))
    /\ Goto(t, "return")
    /\ UNCHANGED <<adapters, ctor, last>>

\* line 352 / 400: the return
Return(t) ==
    /\ Frame(t).pc = "return"
    /\ last' = [NoLast EXCEPT !.op = Frame(t).op, !.g = Frame(t).g, !.name = Frame(t).lg,
                              !.fresh = Frame(t).fresh,
                              !.extra = IF Frame(t).op = "get_structured_logger"
                                        THEN iteritems(Frame(t).call)
                                        ELSE Frame(t).kwargs.fields,
                              !.level = manager[Frame(t).lg].level,
                              !.handlers = manager[Frame(t).lg].handlers]
    /\ adapters' = IF Frame(t).op = "get_structured_logger"
                   THEN adapters \cup {StructuredAdapter(Frame(t).lg, Frame(t).call)}
                   ELSE adapters
    /\ threads' = [threads EXCEPT ![t] = IdleFrame]
    /\ UNCHANGED <<gogos, manager, hdlrs, flists, ctor>>

\* what the threads ask for
ThreadNames == {<<"base">>}
ThreadContexts == {<<"('ip', '1.1.1.1')">>}

NextThreads ==
    \/ \E t \in Threads, g \in DOMAIN gogos, name \in ThreadNames, fields \in FieldChoices :
            CallGetLogger(t, g, name, fields)
    \/ \E t \in Threads, g \in DOMAIN gogos, call \in ThreadContexts :
            CallGetStructuredLogger(t, g, << >>, call)
    \/ \E t \in Threads : Test(t)
    \/ \E t \in Threads : Add(t)
    \/ \E t \in Threads : AttachHigh(t)
    \/ \E t \in Threads : AttachLow(t)
    \/ \E t \in Threads : SetLevel(t)
    \/ \E t \in Threads : Return(t)

SpecThreads == InitThreads /\ [][NextThreads]_vars

-----------------------------------------------------------------------------
(* Properties.                                                             *)

\* the streams behind the low pass and the high pass handler of a Gogo
low_sink(g) ==
    IF gogos[g].low_hdlr = NoHdlr THEN "stdout" ELSE hdlrs[gogos[g].low_hdlr].stream

high_sink(g) ==
    IF gogos[g].high_hdlr = NoHdlr THEN "stderr" ELSE hdlrs[gogos[g].high_hdlr].stream

\* the handlers among refs that write to the stream
On(refs, stream) == {i \in DOMAIN refs : hdlrs[refs[i]].stream = stream}

Reaches(stream) == On(last.out, stream) # {}

EmittedOn(g) == last.op = "log" /\ last.name \in gogos[g].loggers

\* C1: with monolog off, a record emitted on a logger of get_logger reaches
\* no sink below low_level, the low pass sink alone from low_level up to
\* high_level, and both sinks from high_level up.
C1_RoutingTable ==
    \A g \in DOMAIN gogos :
        (EmittedOn(g) /\ ~gogos[g].monolog) =>
            /\ last.levelno < gogos[g].low_level =>
                    ~Reaches(low_sink(g)) /\ ~Reaches(high_sink(g))
            /\ (gogos[g].low_level <= last.levelno /\ last.levelno < gogos[g].high_level) =>
                    Reaches(low_sink(g)) /\ ~Reaches(high_sink(g))
            /\ last.levelno >= gogos[g].high_level =>
                    Reaches(low_sink(g)) /\ Reaches(high_sink(g))

C1_Witness ==
    /\ EmittedOn(1) /\ ~gogos[1].monolog
    /\ gogos[1].low_level = INFO /\ gogos[1].high_level = ERROR
    /\ last.levelno = WARNING
    /\ Reaches(low_sink(1)) /\ ~Reaches(high_sink(1))

\* C2: with monolog on, a record at or above low_level reaches exactly one
\* sink: the low pass sink below high_level, the high pass sink and not the
\* low pass sink from high_level up; below low_level it reaches neither.
C2_MonologRouting ==
    \A g \in DOMAIN gogos :
        (EmittedOn(g) /\ gogos[g].monolog) =>
            /\ last.levelno < gogos[g].low_level =>
                    ~Reaches(low_sink(g)) /\ ~Reaches(high_sink(g))
            /\ (gogos[g].low_level <= last.levelno /\ last.levelno < gogos[g].high_level) =>
                    Reaches(low_sink(g)) /\ ~Reaches(high_sink(g))
            /\ last.levelno >= gogos[g].high_level =>
                    ~Reaches(low_sink(g)) /\ Reaches(high_sink(g))

C2_Witness ==
    /\ EmittedOn(1) /\ gogos[1].monolog
    /\ gogos[1].low_level = INFO /\ gogos[1].high_level = WARNING
    /\ last.levelno = ERROR
    /\ ~Reaches(low_sink(1)) /\ Reaches(high_sink(1))

\* the logger has exactly one low pass and one high pass handler of Gogo g
WiredOnce(g, handlers) ==
    /\ Cardinality(On(handlers, low_sink(g))) = 1
    /\ Cardinality(On(handlers, high_sink(g))) = 1
    /\ Len(handlers) = 2

\* C3: however often get_logger is called, one after the other, every call
\* returns the logger of the derived name, and that logger carries exactly
\* one low pass and one high pass handler.
C3_Idempotent ==
    /\ \A g \in DOMAIN gogos : \A lg \in gogos[g].loggers :
            lg \in DOMAIN manager /\ WiredOnce(g, manager[lg].handlers)
    /\ last.op = "get_logger" =>
            /\ last.name \in gogos[last.g].loggers
            /\ last.handlers = manager[last.name].handlers
            /\ WiredOnce(last.g, last.handlers)

C3_Witness ==
    /\ last.op = "get_logger" /\ ~last.fresh
    /\ WiredOnce(last.g, manager[last.name].handlers)

\* C4: when threads race on the first call for one derived name, the
\* logger ends with at most one low pass and one high pass handler.
C4_NoDoubleWiring ==
    \A g \in DOMAIN gogos : \A lg \in Loggers(manager) :
        /\ Cardinality(On(manager[lg].handlers, low_sink(g))) <= 1
        /\ Cardinality(On(manager[lg].handlers, high_sink(g))) <= 1

\* C5: a logger returned by get_logger is fully wired at the return: both
\* handlers attached, its level low_level; also when another thread's
\* wiring of the name has begun and not ended.
C5_ReturnedWired ==
    last.op = "get_logger" =>
        /\ On(last.handlers, low_sink(last.g)) # {}
        /\ On(last.handlers, high_sink(last.g)) # {}
        /\ last.level = gogos[last.g].low_level

\* the rank of one of the five names, in any case
Recognized(n) == \E r \in RecognizedNames : upper(n) = upper(r)

Rank(n) ==
    CASE upper(n) = upper(s_debug) -> DEBUG
      [] upper(n) = upper(s_info) -> INFO
      [] upper(n) = upper(s_warning) -> WARNING
      [] upper(n) = upper(s_error) -> ERROR
      [] upper(n) = upper(s_critical) -> CRITICAL

Succeeded == ctor.ok /\ Len(gogos) = 1
Failed == ~ctor.ok /\ gogos = << >>

\* C6: for recognized names and verbose unset, construction succeeds when
\* rank(high_level) >= rank(low_level) and fails, with no instance, when not.
C6_LevelOrder ==
    (/\ ctor.called /\ ctor.verbose = "None"
     /\ ctor.high_level # << >> /\ Recognized(ctor.high_level[1])
     /\ ctor.low_level # << >> /\ Recognized(ctor.low_level[1])) =>
        IF Rank(ctor.high_level[1]) >= Rank(ctor.low_level[1]) THEN Succeeded ELSE Failed

C6_Witness ==
    /\ ctor.called /\ ctor.verbose = "None"
    /\ ctor.high_level = <<s_Info>> /\ ctor.low_level = <<s_ERROR>>
    /\ Failed

\* a level argument that was given and is not the empty string
Supplied(x) == x # << >> /\ x[1] # << >>

\* C7: construction fails whenever a supplied high_level or low_level is
\* not one of the five names, whatever the other options; the five names
\* are accepted in any case.
C7_UnrecognizedRejected ==
    ctor.called =>
        /\ ((Supplied(ctor.high_level) /\ ~Recognized(ctor.high_level[1]))
            \/ (Supplied(ctor.low_level) /\ ~Recognized(ctor.low_level[1]))) => Failed
        /\ ((Supplied(ctor.high_level) /\ Recognized(ctor.high_level[1]))
            /\ (Supplied(ctor.low_level) /\ Recognized(ctor.low_level[1]))) =>
                ctor.error \notin {"Invalid high_level", "Invalid low_level"}

\* the level low_level is to have, by the verbose rule
ExpectedLow ==
    CASE ctor.verbose = "True" -> DEBUG
      [] ctor.verbose = "False" -> INFO
      [] OTHER -> IF ctor.low_level = << >> THEN DEBUG ELSE Rank(ctor.low_level[1])

ExpectedHigh == IF ctor.high_level = << >> THEN WARNING ELSE Rank(ctor.high_level[1])

\* C8: low_level is the argument (DEBUG if none) with verbose unset, DEBUG
\* with verbose true and INFO with verbose false, whatever was passed; the
\* order check is made on this level.
C8_EffectiveLow ==
    (/\ ctor.called
     /\ ctor.high_level = << >> \/ Recognized(ctor.high_level[1])
     /\ ctor.verbose # "None" \/ ctor.low_level = << >> \/ Recognized(ctor.low_level[1])) =>
        /\ Succeeded <=> ExpectedHigh >= ExpectedLow
        /\ Succeeded => gogos[1].low_level = ExpectedLow
        /\ ~Succeeded => Failed

C8_Witness ==
    /\ ctor.called /\ ctor.verbose = "False" /\ ctor.low_level = <<s_bogus>>
    /\ ctor.high_level = <<s_Info>>
    /\ Succeeded /\ gogos[1].low_level = INFO

\* the adapters of calls that gave no name
Unnamed == {a \in adapters : a.logger[Len(a.logger)] # "x"}

\* C9: calls of get_structured_logger without a name whose keyword
\* arguments have the same content, in any order, get the same logger,
\* wired once; calls with different content get different loggers.
C9_ContentNamesLogger ==
    \A a, b \in Unnamed :
        IF Range(a.extra) = Range(b.extra)
        THEN a.logger = b.logger /\ WiredOnce(1, manager[a.logger].handlers)
        ELSE a.logger # b.logger

\* the handlers and filter lists the caller gave to Gogo g, as given
AsGiven(g) ==
    LET given == CallerHeap(ModuleHeap, g)
    IN  \A which \in {"high", "low"} :
            /\ hdlrs[CfgRef(g, which)] = given.h[CfgRef(g, which)]
            /\ flists[hdlrs[CfgRef(g, which)].filters] = given.f[CfgRef(g, which)]

\* every handler object has a filter list of its own
OwnLists == \A r1, r2 \in DOMAIN hdlrs : r1 # r2 => hdlrs[r1].filters # hdlrs[r2].filters

\* a logger's handlers, with their filters
Wiring(M, h, f, lg) ==
    [i \in DOMAIN M[lg].handlers |->
        [hdlr |-> h[M[lg].handlers[i]], filters |-> f[h[M[lg].handlers[i]].filters]]]

\* C10: wiring a logger leaves the handlers the caller configured, and
\* their filter lists, as they were; it leaves the handlers and filter
\* lists of every other logger as they were; no two handlers share a
\* filter list.
C10_CopyOnAttach ==
    [][ /\ \A g \in DOMAIN gogos' : gogos'[g].low_hdlr # NoHdlr => AsGiven(g)'
        /\ OwnLists'
        /\ \A lg \in Loggers(manager) :
                lg # last'.name =>
                    Wiring(manager', hdlrs', flists', lg) = Wiring(manager, hdlrs, flists, lg)
      ]_vars

C10_Witness ==
    /\ gogos[1].low_hdlr # NoHdlr /\ gogos[1].monolog
    /\ Cardinality(gogos[1].loggers) = 2
    /\ \E lg \in gogos[1].loggers : \E i \in DOMAIN manager[lg].handlers :
            Len(flists[hdlrs[manager[lg].handlers[i]].filters]) = 3
    /\ AsGiven(1)

\* C11: the set of logger names a Gogo holds only grows: a name in it stays
\* in it over every call of get_logger and get_structured_logger, the name
\* a call derives is in it after the call, and a call for a name already in
\* it leaves it as it was.
C11_RegistryGrows ==
    [][ \A g \in DOMAIN gogos :
            /\ gogos[g].loggers \subseteq gogos'[g].loggers
            /\ last'.g = g =>
                    /\ last'.name \in gogos'[g].loggers
                    /\ last'.name \in gogos[g].loggers =>
                            gogos'[g].loggers = gogos[g].loggers
      ]_vars

C11_Witness ==
    /\ last.op = "get_structured_logger" /\ ~last.fresh
    /\ Cardinality(gogos[last.g].loggers) = 2
    /\ \E lg \in gogos[last.g].loggers : Len(lg) = 2

\* C12: a record logged through a structured adapter is written as one
\* document whose fields are the adapter's keywords in the order they were
\* written at get_structured_logger, then message, then the keys of the
\* call's extra; without extra, the keywords and then message.
C12_FieldOrder ==
    (last.op = "adapter_log" /\ last.out # << >>) =>
        last.doc = keys(last.declared) \o <<"message">> \o last.extra

\* the filters update_hdlr attached under monolog to the handlers of the
\* logger: the LogFilters on its handlers' lists
MonologFilters(lg) ==
    LET fl(i) == flists[hdlrs[manager[lg].handlers[i]].filters]
    IN  UNION {{fl(i)[k] : k \in {j \in DOMAIN fl(i) : fl(i)[j].kind = "LogFilter"}} :
                    i \in DOMAIN manager[lg].handlers}

\* the severities the filter admits on records of the logger
Admitted(fltr, lg) == {s \in Severities : admits(fltr, [name |-> lg, levelno |-> s])}

\* C13 as stated: the filter update_hdlr attaches when monolog is true
\* admits a record iff its level is at or above the Gogo's high_level.
C13_AdmitsFromHigh ==
    \A g \in DOMAIN gogos : \A lg \in gogos[g].loggers :
        /\ gogos[g].monolog => MonologFilters(lg) # {}
        /\ \A fltr \in MonologFilters(lg) :
                Admitted(fltr, lg) = {s \in Severities : s >= gogos[g].high_level}

\* C13 amended: the filter update_hdlr attaches when monolog is true admits
\* a record iff its level is below the Gogo's high_level.
C13_AdmitsBelowHigh ==
    \A g \in DOMAIN gogos : \A lg \in gogos[g].loggers :
        /\ gogos[g].monolog => MonologFilters(lg) # {}
        /\ \A fltr \in MonologFilters(lg) :
                Admitted(fltr, lg) = {s \in Severities : s < gogos[g].high_level}

C13_Witness ==
    /\ gogos[1].monolog /\ gogos[1].high_level = ERROR /\ gogos[1].low_level = INFO
    /\ \E lg \in gogos[1].loggers : \E fltr \in MonologFilters(lg) :
            Admitted(fltr, lg) = {DEBUG, INFO, WARNING}

\* the wiring of the logger in a world
WiringIn(W, lg) == Wiring(W.manager, W.heap.h, W.heap.f, lg)

\* the name is one get_structured_logger derives for Gogo g
IsStructuredName(g, lg) ==
    /\ Len(lg) = Len(gogos[g].name) + 2
    /\ SubSeq(lg, 1, Len(gogos[g].name) + 1) = gogos[g].name \o <<"structured">>

\* the wiring get_logger would give the name from the present state, called
\* with the part of the name after the Gogo's and with the fields
ByGetLogger(g, lg, fields) ==
    WiringIn(get_logger(World, g, SubSeq(lg, Len(gogos[g].name) + 1, Len(lg)), fields), lg)

\* the wiring get_structured_logger would give it, called with the last
\* part of the name and with the keywords
ByStructured(g, lg, call) ==
    WiringIn(get_structured_logger(World, g, <<<<lg[Len(lg)]>>>>, call), lg)

\* a step that wired a name of get_structured_logger on Gogo g
WiredStructuredName(g) ==
    last'.g = g /\ last'.fresh /\ IsStructuredName(g, last'.name)

\* C14 as stated: whichever of get_structured_logger and get_logger is the
\* first to be asked for a derived name, the logger gets the same handlers:
\* levels, filter lists and formatters; get_structured_logger attaches the
\* two handlers get_logger would and no other.
C14_SameWiringEitherWay ==
    [][ \A g \in DOMAIN gogos : WiredStructuredName(g) =>
            /\ \A call \in PathContexts : \A fields \in FieldChoices :
                    ByStructured(g, last'.name, call) = ByGetLogger(g, last'.name, fields)
            /\ last'.op = "get_structured_logger" =>
                    \A fields \in FieldChoices :
                        WiringIn(World', last'.name) = ByGetLogger(g, last'.name, fields)
      ]_vars

\* C14 amended: get_structured_logger gives a derived name the handlers
\* that get_logger called without fields gives it.
C14_SameWiringAsPlain ==
    [][ \A g \in DOMAIN gogos : WiredStructuredName(g) =>
            /\ \A call \in PathContexts :
                    ByStructured(g, last'.name, call) = ByGetLogger(g, last'.name, << >>)
            /\ last'.op = "get_structured_logger" =>
                    /\ WiringIn(World', last'.name) = ByGetLogger(g, last'.name, << >>)
                    /\ Len(manager'[last'.name].handlers) = 2
      ]_vars

C14_Witness ==
    /\ last.op = "get_structured_logger" /\ last.fresh /\ last.extra # << >>
    /\ last.name = <<"app", "structured", "x">>
    /\ gogos[1].low_hdlr # NoHdlr /\ gogos[1].monolog
    /\ Cardinality(gogos[1].loggers) = 2
    /\ hdlrs[manager[last.name].handlers[2]].formatter = "low_formatter"

\* the loggers the Gogo instances have wired
Wired == UNION {gogos[g].loggers : g \in DOMAIN gogos}

\* C15: once a Gogo has wired a logger, no later get_logger or
\* get_structured_logger call on that Gogo changes the level, filter list
\* or formatter of the logger's handlers, which handlers it has, or the
\* logger's own level; neither does a call for the same name with other
\* fields.
C15_WiringFrozen ==
    [][ \A lg \in Wired :
            /\ manager'[lg].handlers = manager[lg].handlers
            /\ manager'[lg].level = manager[lg].level
            /\ WiringIn(World', lg) = WiringIn(World, lg)
      ]_vars

C15_Witness ==
    /\ last.op = "get_logger" /\ ~last.fresh /\ last.extra # << >>
    /\ last.name = <<"app", "structured", "x">>
    /\ Cardinality(Wired) = 2
    /\ \A i \in DOMAIN manager[last.name].handlers :
            \A k \in DOMAIN flists[hdlrs[manager[last.name].handlers[i]].filters] :
                flists[hdlrs[manager[last.name].handlers[i]].filters][k].kind # "StructuredFilter"
    /\ Len(manager[last.name].handlers) = 2
    /\ manager[last.name].level = gogos[1].low_level

\* C16: however many Gogo instances there are, two of the same name
\* included, and whatever get_logger calls they get, every logger has at
\* most one low pass and at most one high pass handler, and a record is
\* written to each sink at most once.
C16_OncePerSink ==
    \A g \in DOMAIN gogos : \A lg \in gogos[g].loggers :
        /\ Cardinality(On(manager[lg].handlers, low_sink(g))) <= 1
        /\ Cardinality(On(manager[lg].handlers, high_sink(g))) <= 1
        /\ (last.op = "log" /\ last.name = lg) =>
                /\ Cardinality(On(last.out, low_sink(g))) <= 1
                /\ Cardinality(On(last.out, high_sink(g))) <= 1

\* C17: a record logged on a logger is handled by that logger's own two
\* handlers and by no others: wiring a logger whose name is a dotted prefix
\* of it ('a' and 'a.b') on the same Gogo does not have the record written
\* again by that logger's handlers.
C17_OwnHandlersOnly ==
    \A g \in DOMAIN gogos :
        (last.op = "log" /\ last.name \in gogos[g].loggers) =>
            /\ Range(last.out) \subseteq Range(manager[last.name].handlers)
            /\ Cardinality(On(last.out, low_sink(g))) <= 1
            /\ Cardinality(On(last.out, high_sink(g))) <= 1

====
